---- MODULE Spec2Model ----
(***************************************************************************)
(* BountyCardStore (src/src/store/bountyCard.ts): the state of one store   *)
(* instance, the session-storage key it persists its filter under, the     *)
(* auth token of uiStore, and every loadWorkspaceBounties invocation that  *)
(* is in flight, each at the await it is suspended on.  One action is one  *)
(* run-to-completion step of the event loop: a call made by the UI up to   *)
(* its first await, or the continuation after one awaited promise settles. *)
(***************************************************************************)
EXTENDS Integers, Sequences, FiniteSets, TLC

\* ------------------------------------------------------------ bounds
\* Invocations of loadWorkspaceBounties that pass the precondition check,
\* per store instance (the constructor's included).
MaxLoads == 2
\* Cards in one list response.
MaxCards == 2
\* Proof records in one proofs response.
MaxProofs == 1

\* ------------------------------------------------------------ inputs
Null == "null"
NoJwt == ""
Jwt == "jwt"
NoWorkspace == ""
Workspaces == {"w1", "w2"}
WorkspaceIds == Workspaces \cup {NoWorkspace}
FeatureIds == {"f1", "no-feature"}
Times == {1, 2}
StatusTexts == {"Not Found"}
Statuses == <<"TODO", "IN_PROGRESS", "IN_REVIEW", "COMPLETED", "PAID", "DRAFT">>
FeatureUuids == <<"f1", "", "f2">>

\* The k-th card the server lists for workspace ws.  Workspace w2 lists its
\* cards by descending id, so the response order is not the id order.
ServerCard(ws, k) ==
  [id       |-> IF ws = "w1" THEN k ELSE 100 - k,
   status   |-> Statuses[((k - 1 + (IF ws = "w1" THEN 0 ELSE 3)) % 6) + 1],
   features |-> FeatureUuids[((k - 1 + (IF ws = "w1" THEN 0 ELSE 1)) % 3) + 1]]

\* The bodies the list endpoint can answer with for ws: an array of n cards.
\* (A null body is a separate outcome of ListJson.)
ListBodies(ws) == { [k \in 1..n |-> ServerCard(ws, k)] : n \in 0..MaxCards }

MissingMsg == "Missing workspace ID or authentication"
UnknownMsg == "An unknown error occurred"
\* The messages of the TypeError of a rejected fetch and of the SyntaxError
\* of a body that is not JSON.
FetchFailedMsg == "Failed to fetch"
SyntaxErrorMsg == "Unexpected token < in JSON at position 0"
HttpErrorMsg(statusText) == "Failed to load bounties: " \o statusText

\* ------------------------------------------------------------- state
VARIABLES
  bountyCards,         \* BountyCard[]: <<[id, status, features, pow], ...>>
  currentWorkspaceId,  \* string
  loading,             \* boolean
  error,               \* string | null
  selectedFeatures,    \* the JS value of the field: [type, items]
  jwt,                 \* uiStore.meInfo?.tribe_jwt
  storage,             \* sessionStorage['bountyFilterState']
  loads,               \* the invocations of loadWorkspaceBounties, by start order
  alive,               \* the constructor returned a store
  thrown,              \* the last operation raised to its caller
  cardsFrom,           \* history: the load whose commit wrote bountyCards (0: none)
  cardsWs,             \* history: the workspace id that load fetched them for
  cardsProofs,         \* history: what the proofs request of each card of
                       \* bountyCards answered (an array length, or Failed)
  lastOp,              \* history: the last call of the UI and its arguments, or
                       \* "response" and how the request it continues settled
  chats                \* ChatHistoryStore.chats: chat id -> Chat

vars == <<bountyCards, currentWorkspaceId, loading, error, selectedFeatures, jwt,
          storage, loads, alive, thrown, cardsFrom, cardsWs, cardsProofs, lastOp,
          chats>>

storeVars == <<bountyCards, currentWorkspaceId, loading, error>>
filterVars == <<selectedFeatures, storage>>
loadVars == <<loads, cardsFrom, cardsWs, cardsProofs>>

LoadIds == 1..MaxLoads

\* ------------------------------------------------------- JS values
Undefined == [type |-> "undefined", items |-> <<>>]
Arr(s) == [type |-> "array", items |-> s]

\* sessionStorage.getItem: null when the key is absent, else the stored text.
\* A JSON text is modelled by the value it denotes: an object whose
\* selectedFeatures key is present or not, or a text that is not JSON.
NoItem == [kind |-> "null", hasSF |-> FALSE, sf |-> <<>>, ts |-> 0]
Garbage == [kind |-> "garbage", hasSF |-> FALSE, sf |-> <<>>, ts |-> 0]

\* JSON.stringify({selectedFeatures, timestamp}): a key whose value is
\* undefined is omitted from the text.
JSONStringify(sf, now) ==
  [kind |-> "object",
   hasSF |-> sf.type # "undefined",
   sf |-> IF sf.type = "undefined" THEN <<>> ELSE sf.items,
   ts |-> now]

\* JSON.parse throws a SyntaxError on a text that is not JSON.
JSONParseThrows(text) == text.kind = "garbage"

\* (JSON.parse(text) as FilterState).selectedFeatures: undefined when the
\* object has no such key.
ParsedSelectedFeatures(text) ==
  IF text.hasSF THEN Arr(text.sf) ELSE Undefined

\* ------------------------------------------------------ load records
\* One invocation of loadWorkspaceBounties that passed the precondition
\* check: the await it is suspended on (pc), the workspace id its url was
\* built from (line 43), the parsed list (data || []) and the per-card
\* tasks; nullBody is history: the body was null.  A load that has ended
\* holds nothing any more.
LoadAt(pc, ws, data, proofs, nullBody) ==
  [pc |-> pc, ws |-> ws, data |-> data, proofs |-> proofs, nullBody |-> nullBody]
IdleLoad == LoadAt("idle", NoWorkspace, <<>>, <<>>, FALSE)
EndedLoad(pc) == LoadAt(pc, NoWorkspace, <<>>, <<>>, FALSE)
InFlight(l) == l.pc \in {"list", "json", "proofs"}
Started(l) == l.pc # "idle"
NumStarted == Cardinality({i \in LoadIds : Started(loads[i])})

\* The promise of one per-card task: awaiting fetch, awaiting json(), or
\* resolved with { ...bounty, pow }.  got is history: what the request
\* answered, an array length or Failed.
Failed == -1
ProofPending == [st |-> "fetch", pow |-> 0, got |-> Failed]
ProofParsing == [st |-> "json", pow |-> 0, got |-> Failed]
ProofDone(n, got) == [st |-> "done", pow |-> n, got |-> got]

\* Line 79: Array.isArray(proofs) ? proofs.length : 0, for an array of n.
ProofCount(n) == n

\* Faulty variant of Enriched: the cards whose task failed are left out (a task
\* that rejects instead of resolving with pow = 0).
EnrichedDropsFailed(l) ==
  LET kept == SelectSeq([k \in 1..Len(l.data) |-> k],
                        LAMBDA k : l.proofs[k].got # Failed)
  IN [j \in 1..Len(kept) |->
        [id |-> l.data[kept[j]].id, status |-> l.data[kept[j]].status,
         features |-> l.data[kept[j]].features, pow |-> l.proofs[kept[j]].pow]]

\* Faulty variant of Enriched: the committed list is ordered by card id instead of
\* by the list response.
EnrichedSortedById(l) ==
  LET rank(k) == Cardinality({j \in 1..Len(l.data) : l.data[j].id <= l.data[k].id})
      at(r) == CHOOSE k \in 1..Len(l.data) : rank(k) = r
  IN [r \in 1..Len(l.data) |->
        [id |-> l.data[at(r)].id, status |-> l.data[at(r)].status,
         features |-> l.data[at(r)].features, pow |-> l.proofs[at(r)].pow]]

\* bountyCardsWithProofs (lines 60-86), once every task has resolved, as
\* line 89 copies it.
Enriched(l) ==
  [k \in 1..Len(l.data) |->
     [id |-> l.data[k].id, status |-> l.data[k].status,
      features |-> l.data[k].features, pow |-> l.proofs[k].pow]]

AllSettled(l) == \A k \in 1..Len(l.proofs) : l.proofs[k].st = "done"

\* --------------------------------------------- loadWorkspaceBounties
PreconditionOk(ws) == ws # NoWorkspace /\ jwt # NoJwt

\* Faulty variant of BeginLoad: loading is set before the precondition is checked.
BeginLoadSetsLoadingFirst(ws) ==
  IF PreconditionOk(ws)
  THEN /\ NumStarted < MaxLoads
       /\ loading' = TRUE
       /\ error' = Null
       /\ loads' = [loads EXCEPT ![NumStarted + 1] =
                      LoadAt("list", ws, <<>>, <<>>, FALSE)]
  ELSE /\ error' = MissingMsg
       /\ loading' = TRUE
       /\ UNCHANGED loads

\* Lines 28-51, the synchronous part of loadWorkspaceBounties for the
\* workspace id ws the store holds when it runs: the precondition check,
\* then loading = true, error = null and the list request.
BeginLoad(ws) ==
  IF PreconditionOk(ws)
  THEN /\ NumStarted < MaxLoads
       /\ loading' = TRUE
       /\ error' = Null
       /\ loads' = [loads EXCEPT ![NumStarted + 1] =
                      LoadAt("list", ws, <<>>, <<>>, FALSE)]
  ELSE /\ error' = MissingMsg
       /\ UNCHANGED <<loading, loads>>

\* The UI calls loadWorkspaceBounties().
LoadWorkspaceBounties ==
  /\ alive
  /\ BeginLoad(currentWorkspaceId)
  /\ thrown' = FALSE
  /\ lastOp' = <<"loadWorkspaceBounties", "">>
  /\ UNCHANGED <<bountyCards, currentWorkspaceId, cardsFrom, cardsWs, cardsProofs,
                 selectedFeatures, jwt, chats, storage, alive>>

\* Line 96: the message the catch block stores for what was thrown: the
\* Error raised at line 54 for a response that is not ok (text: its
\* statusText), the Error of a rejected fetch or json() (text: its
\* message), or a rejection with a value that is not an Error.
CaughtMessage(kind, text) ==
  CASE kind = "status"   -> HttpErrorMsg(text)
    [] kind = "rejected" -> text
    [] kind = "parse"    -> text
    [] OTHER             -> UnknownMsg

\* Faulty variant of FailLoad: no finally block, loading is cleared on success only.
FailLoadKeepsLoading(i, kind, text) ==
  /\ error' = CaughtMessage(kind, text)
  /\ lastOp' = <<"response", kind>>
  /\ loads' = [loads EXCEPT ![i] = EndedLoad("failed")]
  /\ UNCHANGED <<bountyCards, loading, cardsFrom, cardsWs, cardsProofs>>

\* Faulty variant of FailLoad: the catch block also empties bountyCards.
FailLoadClearsCards(i, kind, text) ==
  /\ error' = CaughtMessage(kind, text)
  /\ loading' = FALSE
  /\ lastOp' = <<"response", kind>>
  /\ bountyCards' = <<>>
  /\ cardsFrom' = 0
  /\ cardsWs' = NoWorkspace
  /\ cardsProofs' = <<>>
  /\ loads' = [loads EXCEPT ![i] = EndedLoad("failed")]

\* Lines 93-102: the catch block sets error, the finally block clears loading.
FailLoad(i, kind, text) ==
  /\ error' = CaughtMessage(kind, text)
  /\ loading' = FALSE
  /\ lastOp' = <<"response", kind>>
  /\ loads' = [loads EXCEPT ![i] = EndedLoad("failed")]
  /\ UNCHANGED <<bountyCards, cardsFrom, cardsWs, cardsProofs>>

\* Line 45 settles: the list fetch rejects (with an Error or with another
\* value), or resolves with a response whose ok flag is false (line 53) or
\* true.
ListResponse(i) ==
  /\ loads[i].pc = "list"
  /\ \/ FailLoad(i, "rejected", FetchFailedMsg)
     \/ FailLoad(i, "rejectedNonError", "")
     \/ \E st \in StatusTexts : FailLoad(i, "status", st)
     \/ /\ loads' = [loads EXCEPT ![i].pc = "json"]
        /\ lastOp' = <<"response", "ok">>
        /\ UNCHANGED <<bountyCards, loading, error, cardsFrom, cardsWs, cardsProofs>>
  /\ UNCHANGED <<currentWorkspaceId, selectedFeatures, jwt, chats, storage, alive, thrown>>

\* Lines 60-86 run for the parsed body (data || []): one proofs request per
\* card.
FanOut(i, body, nullBody) ==
  /\ loads' = [loads EXCEPT ![i] =
                 LoadAt("proofs", @.ws, body,
                        [k \in 1..Len(body) |-> ProofPending], nullBody)]
  /\ lastOp' = <<"response", "ok">>
  /\ UNCHANGED <<bountyCards, loading, error, cardsFrom, cardsWs, cardsProofs>>

\* Line 57 settles: response.json() rejects, or resolves with null or an array.
ListJson(i) ==
  /\ loads[i].pc = "json"
  /\ \/ FailLoad(i, "parse", SyntaxErrorMsg)
     \/ FanOut(i, <<>>, TRUE)
     \/ \E body \in ListBodies(loads[i].ws) : FanOut(i, body, FALSE)
  /\ UNCHANGED <<currentWorkspaceId, selectedFeatures, jwt, chats, storage, alive, thrown>>

SetProof(i, k, p) ==
  /\ loads' = [loads EXCEPT ![i].proofs[k] = p]
  /\ UNCHANGED <<bountyCards, loading, error, cardsFrom, cardsWs, cardsProofs>>

\* Line 64 settles for card k: rejection (line 81), not ok (line 72), or ok.
ProofResponse(i, k) ==
  /\ loads[i].pc = "proofs"
  /\ k \in 1..Len(loads[i].proofs)
  /\ loads[i].proofs[k].st = "fetch"
  /\ \/ SetProof(i, k, ProofDone(0, Failed))
     \/ SetProof(i, k, ProofParsing)
  /\ lastOp' = <<"response", "ok">>
  /\ UNCHANGED <<currentWorkspaceId, selectedFeatures, jwt, chats, storage, alive, thrown>>

\* Line 76 settles for card k: an array of n proofs, a body that is not an
\* array (line 79), or a rejection (line 81).
ProofJson(i, k) ==
  /\ loads[i].pc = "proofs"
  /\ k \in 1..Len(loads[i].proofs)
  /\ loads[i].proofs[k].st = "json"
  /\ \/ \E n \in 0..MaxProofs : SetProof(i, k, ProofDone(ProofCount(n), n))
     \/ SetProof(i, k, ProofDone(0, Failed))
  /\ lastOp' = <<"response", "ok">>
  /\ UNCHANGED <<currentWorkspaceId, selectedFeatures, jwt, chats, storage, alive, thrown>>

\* Faulty variant of Commit: a request-generation guard, the list of a load is
\* dropped when a later load has started.
CommitUnlessSuperseded(i) ==
  /\ loads[i].pc = "proofs"
  /\ AllSettled(loads[i])
  /\ IF i = NumStarted
     THEN /\ bountyCards' = Enriched(loads[i])
          /\ cardsFrom' = i
          /\ cardsWs' = loads[i].ws
          /\ cardsProofs' = [k \in 1..Len(loads[i].proofs) |-> loads[i].proofs[k].got]
     ELSE UNCHANGED <<bountyCards, cardsFrom, cardsWs, cardsProofs>>
  /\ loading' = FALSE
  /\ loads' = [loads EXCEPT ![i] = EndedLoad("committed")]
  /\ lastOp' = <<"response", "ok">>
  /\ UNCHANGED <<currentWorkspaceId, error, selectedFeatures, jwt, chats,
                 storage, alive, thrown>>

\* Faulty variant of Commit: the list is committed without waiting for
\* every per-card task (a missing await on Promise.all).
CommitBeforeSettled(i) ==
  /\ loads[i].pc = "proofs"
  /\ bountyCards' = Enriched(loads[i])
  /\ loading' = FALSE
  /\ loads' = [loads EXCEPT ![i] = EndedLoad("committed")]
  /\ cardsFrom' = i
  /\ cardsWs' = loads[i].ws
  /\ cardsProofs' = [k \in 1..Len(loads[i].proofs) |-> loads[i].proofs[k].got]
  /\ lastOp' = <<"response", "ok">>
  /\ UNCHANGED <<currentWorkspaceId, error, selectedFeatures, jwt, chats,
                 storage, alive, thrown>>

\* Lines 88-92 and 98-102: Promise.all has resolved; the enriched list
\* replaces bountyCards and the finally block clears loading.
Commit(i) ==
  /\ loads[i].pc = "proofs"
  /\ AllSettled(loads[i])
  /\ bountyCards' = Enriched(loads[i])
  /\ loading' = FALSE
  /\ loads' = [loads EXCEPT ![i] = EndedLoad("committed")]
  /\ cardsFrom' = i
  /\ cardsWs' = loads[i].ws
  /\ cardsProofs' = [k \in 1..Len(loads[i].proofs) |-> loads[i].proofs[k].got]
  /\ lastOp' = <<"response", "ok">>
  /\ UNCHANGED <<currentWorkspaceId, error, selectedFeatures, jwt, chats,
                 storage, alive, thrown>>

\* ----------------------------------------------------- switchWorkspace
\* Faulty variant of SwitchWorkspace: the cards of the old workspace are kept until
\* the new load commits.
SwitchWorkspaceKeepsCards(newWorkspaceId) ==
  /\ alive
  /\ IF currentWorkspaceId = newWorkspaceId
     THEN UNCHANGED <<storeVars, loadVars>>
     ELSE /\ currentWorkspaceId' = newWorkspaceId
          /\ BeginLoad(newWorkspaceId)
          /\ UNCHANGED <<bountyCards, cardsFrom, cardsWs, cardsProofs>>
  /\ thrown' = FALSE
  /\ lastOp' = <<"switchWorkspace", newWorkspaceId>>
  /\ UNCHANGED <<selectedFeatures, jwt, chats, storage, alive>>

\* Faulty variant of SwitchWorkspace: no early return for the current id.
SwitchWorkspaceAlwaysReloads(newWorkspaceId) ==
  /\ alive
  /\ currentWorkspaceId' = newWorkspaceId
  /\ bountyCards' = <<>>
  /\ cardsFrom' = 0
  /\ cardsWs' = NoWorkspace
  /\ cardsProofs' = <<>>
  /\ BeginLoad(newWorkspaceId)
  /\ thrown' = FALSE
  /\ lastOp' = <<"switchWorkspace", newWorkspaceId>>
  /\ UNCHANGED <<selectedFeatures, jwt, chats, storage, alive>>

\* Lines 105-114, up to the first await of the load it starts.
SwitchWorkspace(newWorkspaceId) ==
  /\ alive
  /\ IF currentWorkspaceId = newWorkspaceId
     THEN UNCHANGED <<storeVars, loadVars>>
     ELSE /\ currentWorkspaceId' = newWorkspaceId
          /\ bountyCards' = <<>>
          /\ cardsFrom' = 0
          /\ cardsWs' = NoWorkspace
          /\ cardsProofs' = <<>>
          /\ BeginLoad(newWorkspaceId)
  /\ thrown' = FALSE
  /\ lastOp' = <<"switchWorkspace", newWorkspaceId>>
  /\ UNCHANGED <<selectedFeatures, jwt, chats, storage, alive>>

\* ------------------------------------------------------------ logout
\* useUserInfo().logout: ui.setMeInfo(null) removes the token.
Logout ==
  /\ jwt # NoJwt
  /\ jwt' = NoJwt
  /\ lastOp' = <<"logout", "">>
  /\ UNCHANGED <<storeVars, filterVars, loadVars, alive, thrown, chats>>

\* ------------------------------------------------- filter persistence
\* Faulty variant of SaveFilterState: the selection is written as it was before the
\* update (the save runs first).
SaveFilterStateStale(sf, now) == storage' = JSONStringify(selectedFeatures, now)

\* saveFilterState (lines 136-145), for the selection sf at time now.
SaveFilterState(sf, now) == storage' = JSONStringify(sf, now)

\* restoreFilterState (lines 147-156) on the stored item: the selection the
\* store holds afterwards, given the one it held before.
RestoredFeatures(item, before) ==
  IF item.kind = "null" THEN before ELSE ParsedSelectedFeatures(item)

\* Array.prototype.includes / filter / push on the items of an array.
Includes(items, x) == \E k \in 1..Len(items) : items[k] = x
Without(items, x) == SelectSeq(items, LAMBDA y : y # x)

\* Faulty variant of Toggled: the id is pushed whether or not it is selected.
ToggledAlwaysAppends(items, featureId) == Append(items, featureId)

\* toggleFeature (lines 158-166): the selection after the call.
Toggled(items, featureId) ==
  IF Includes(items, featureId) THEN Without(items, featureId)
                                ELSE Append(items, featureId)

\* toggleFeature(featureId).  When the field holds no array (restored from a
\* record without the key) the includes call raises a TypeError.
ToggleFeature(featureId) ==
  /\ alive
  /\ IF selectedFeatures.type = "array"
     THEN /\ selectedFeatures' = Arr(Toggled(selectedFeatures.items, featureId))
          /\ \E now \in Times : SaveFilterState(selectedFeatures', now)
          /\ thrown' = FALSE
     ELSE /\ thrown' = TRUE
          /\ UNCHANGED filterVars
  /\ lastOp' = <<"toggleFeature", featureId>>
  /\ UNCHANGED <<storeVars, loadVars, jwt, chats, alive>>

\* Faulty variant of ClearAllFilters: the key is removed and not written
\* again.
ClearAllFiltersRemovesOnly ==
  /\ alive
  /\ selectedFeatures' = Arr(<<>>)
  /\ storage' = NoItem
  /\ thrown' = FALSE
  /\ lastOp' = <<"clearAllFilters", "">>
  /\ UNCHANGED <<storeVars, loadVars, jwt, chats, alive>>

\* clearAllFilters (lines 168-173): removeItem, then saveFilterState writes
\* the key again.
ClearAllFilters ==
  /\ alive
  /\ selectedFeatures' = Arr(<<>>)
  /\ \E now \in Times : SaveFilterState(selectedFeatures', now)
  /\ thrown' = FALSE
  /\ lastOp' = <<"clearAllFilters", "">>
  /\ UNCHANGED <<storeVars, loadVars, jwt, chats, alive>>

\* ------------------------------------------------------ derived views
\* Faulty variant of ReviewItems: the getter compares with the status of
\* assignedItems.
ReviewItemsByInProgress ==
  SelectSeq(bountyCards, LAMBDA card : card.status = "IN_PROGRESS")

\* Faulty variant of CompletedItems: paid cards count as completed too.
CompletedItemsWithPaid ==
  SelectSeq(bountyCards, LAMBDA card : card.status \in {"COMPLETED", "PAID"})

\* The status getters (lines 116-134).
TodoItems == SelectSeq(bountyCards, LAMBDA card : card.status = "TODO")
AssignedItems == SelectSeq(bountyCards, LAMBDA card : card.status = "IN_PROGRESS")
CompletedItems == SelectSeq(bountyCards, LAMBDA card : card.status = "COMPLETED")
PaidItems == SelectSeq(bountyCards, LAMBDA card : card.status = "PAID")
ReviewItems == SelectSeq(bountyCards, LAMBDA card : card.status = "IN_REVIEW")

\* The five status views, in the order of the board's columns.
StatusViews == <<TodoItems, AssignedItems, ReviewItems, CompletedItems, PaidItems>>

\* Line 177 reads selectedFeatures.length, which raises when the field
\* holds no array.
FilteredThrows == selectedFeatures.type # "array"

\* Faulty variant of FilteredBountyCards: the 'no-feature' entry is not
\* looked at.
FilteredIgnoresNoFeature ==
  IF Len(selectedFeatures.items) = 0
  THEN bountyCards
  ELSE SelectSeq(bountyCards, LAMBDA card :
         card.features # "" /\ Includes(selectedFeatures.items, card.features))

\* filteredBountyCards (lines 175-197), for a selection that is an array.
\* A card's features field is its features?.uuid, "" when it has none.
FilteredBountyCards ==
  IF Len(selectedFeatures.items) = 0
  THEN bountyCards
  ELSE SelectSeq(bountyCards, LAMBDA card :
         LET hasNoFeature == card.features = ""
             isNoFeatureSelected == Includes(selectedFeatures.items, "no-feature")
             hasSelectedFeature ==
               card.features # "" /\ Includes(selectedFeatures.items, card.features)
         IN  (hasNoFeature /\ isNoFeatureSelected) \/ hasSelectedFeature)

\* hasCardsWithoutFeatures (lines 199-202).
HasCardsWithoutFeatures ==
  \E k \in 1..Len(bountyCards) : bountyCards[k].features = ""

\* --------------------------------------------------- ChatHistoryStore
\* The chat store is a key-value cache of chats by id.  Its code is not
\* part of the sources at hand; it is modelled from its description and
\* from the calls its test suite makes (addChat, updateChat, getChat and
\* the chats object).
\* The ids the tests add chats under, and the ids they look up.
AddedChatIds == {"chat123", "CHAT123", "chat1"}
ChatIds == AddedChatIds \cup {"", "  chat123  ", "nonexistent123"}
ChatTitles == {"Test Chat", "Updated Title"}
ChatWorkspaces == {"workspace123", "workspace456"}
\* The lower-case, trimmed form of an id.
Normalised(id) ==
  CASE id = "CHAT123" -> "chat123"
    [] id = "  chat123  " -> "chat123"
    [] OTHER -> id
NoChats == [id \in {} |-> Null]
UndefinedChat == [id |-> Null, workspaceId |-> Null, title |-> Null]
Chat(id, workspaceId, title) == [id |-> id, workspaceId |-> workspaceId, title |-> title]

\* Faulty variant of GetChat: the id is trimmed and lower-cased before the
\* lookup.
GetChatNormalised(id) ==
  IF Normalised(id) \in DOMAIN chats THEN chats[Normalised(id)] ELSE UndefinedChat

\* getChat(id): the chat stored under exactly id, or undefined.
GetChat(id) == IF id \in DOMAIN chats THEN chats[id] ELSE UndefinedChat

\* addChat(chat): the chat is stored under chat.id, replacing the one there.
AddChat(chat) ==
  /\ chats' = [id \in DOMAIN chats \cup {chat.id} |->
                 IF id = chat.id THEN chat ELSE chats[id]]
  /\ lastOp' = <<"addChat", chat.id, chat.workspaceId, chat.title>>
  /\ UNCHANGED <<storeVars, filterVars, loadVars, jwt, alive, thrown>>

\* updateChat(id, { title }): the fields given are merged into the chat
\* stored under id; nothing is stored when there is none.
UpdateChat(id, title) ==
  /\ chats' = IF id \in DOMAIN chats
               THEN [chats EXCEPT ![id] = [@ EXCEPT !.title = title]]
               ELSE chats
  /\ lastOp' = <<"updateChat", id, title>>
  /\ UNCHANGED <<storeVars, filterVars, loadVars, jwt, alive, thrown>>

\* -------------------------------------------------------- constructor
\* What the session storage can hold when the first store is constructed:
\* nothing, a record written earlier, an object without the key, a text
\* that is not JSON, or a record that names a feature twice.
InitialStorages ==
  {NoItem, Garbage, JSONStringify(Undefined, 1), JSONStringify(Arr(<<"f1">>), 1),
   JSONStringify(Arr(<<"f1", "f1">>), 1)}

\* The load records of a store whose constructor has run line 23.
ConstructedLoads(ws) ==
  [i \in LoadIds |->
     IF i = 1 /\ PreconditionOk(ws)
     THEN LoadAt("list", ws, <<>>, <<>>, FALSE)
     ELSE IdleLoad]

\* new BountyCardStore(ws) (lines 13-25) in a session whose storage holds
\* item: the field initialisers, the first load up to its first await, then
\* restoreFilterState, which raises when the item does not parse.
Constructed(ws, item, cards, wsId, ld, err, sf, lds, alv, thr, from, fromWs, prf, op) ==
  /\ wsId = ws
  /\ cards = <<>>
  /\ ld = PreconditionOk(ws)
  /\ err = IF PreconditionOk(ws) THEN Null ELSE MissingMsg
  /\ lds = ConstructedLoads(ws)
  /\ from = 0
  /\ fromWs = NoWorkspace
  /\ prf = <<>>
  /\ sf = IF JSONParseThrows(item) THEN Arr(<<>>)
          ELSE RestoredFeatures(item, Arr(<<>>))
  /\ alv = ~JSONParseThrows(item)
  /\ thr = JSONParseThrows(item)
  /\ op = <<"constructor", ws>>

Init ==
  /\ jwt \in {NoJwt, Jwt}
  /\ chats = NoChats
  /\ storage \in InitialStorages
  /\ \E ws \in WorkspaceIds :
       Constructed(ws, storage, bountyCards, currentWorkspaceId, loading, error,
                   selectedFeatures, loads, alive, thrown, cardsFrom, cardsWs,
                   cardsProofs, lastOp)

\* useBountyCardStore(workspaceId) builds a new store in the same session
\* (the memo's key changed, or the component was mounted again); the model
\* follows the new instance.
Construct(ws) ==
  /\ Constructed(ws, storage, bountyCards', currentWorkspaceId', loading', error',
                 selectedFeatures', loads', alive', thrown', cardsFrom', cardsWs',
                 cardsProofs',
                 lastOp')
  /\ UNCHANGED <<jwt, chats, storage>>

\* The steps of one store instance that concern its cards.
LoadNext ==
  \/ LoadWorkspaceBounties
  \/ \E w \in WorkspaceIds : SwitchWorkspace(w)
  \/ \E i \in LoadIds : ListResponse(i)
  \/ \E i \in LoadIds : ListJson(i)
  \/ \E i \in LoadIds, k \in 1..MaxCards : ProofResponse(i, k)
  \/ \E i \in LoadIds, k \in 1..MaxCards : ProofJson(i, k)
  \/ \E i \in LoadIds : Commit(i)
  \/ Logout

\* The steps that concern the feature filter and its persisted record.
FilterNext ==
  \/ \E f \in FeatureIds : ToggleFeature(f)
  \/ ClearAllFilters
  \/ \E w \in WorkspaceIds : Construct(w)

\* The chat store on its own, next to a bounty store that is left alone.
ChatNext ==
  \/ \E id \in AddedChatIds, w \in ChatWorkspaces, t \in ChatTitles :
       AddChat(Chat(id, w, t))
  \/ \E id \in ChatIds, t \in ChatTitles : UpdateChat(id, t)

Next == LoadNext \/ FilterNext \/ ChatNext

Spec == Init /\ [][Next]_vars

\* One store instance in a session that holds no filter record: the load
\* steps never read or write selectedFeatures or the storage, and the filter
\* steps never read or write the cards, so each half is checked on its own.
LoadInit == Init /\ storage = NoItem
LoadSpec == LoadInit /\ [][LoadNext]_vars
FilterSpec == Init /\ [][FilterNext]_vars
ChatSpec == LoadInit /\ [][ChatNext]_vars

\* The derived views are functions of bountyCards and selectedFeatures.
\* They are checked on a store whose first load has committed a list of up
\* to MaxCards cards of any status and any feature, in a session that held
\* any parseable record, followed by the filter calls of the UI.
CardLists ==
  UNION { { [k \in 1..n |->
               [id |-> k, status |-> st[k], features |-> ft[k], pow |-> 0]] :
            st \in [1..n -> {Statuses[j] : j \in 1..Len(Statuses)}],
            ft \in [1..n -> {FeatureUuids[j] : j \in 1..Len(FeatureUuids)}] } :
          n \in 0..MaxCards }
ViewInit ==
  /\ jwt = Jwt
  /\ chats = NoChats
  /\ storage \in InitialStorages \ {Garbage}
  /\ currentWorkspaceId = "w1"
  /\ bountyCards \in CardLists
  /\ loading = FALSE
  /\ error = Null
  /\ selectedFeatures = RestoredFeatures(storage, Arr(<<>>))
  /\ loads = [i \in LoadIds |-> IF i = 1 THEN EndedLoad("committed") ELSE IdleLoad]
  /\ alive = TRUE
  /\ thrown = FALSE
  /\ cardsFrom = 1
  /\ cardsWs = "w1"
  /\ cardsProofs = [k \in 1..Len(bountyCards) |-> 0]
  /\ lastOp = <<"response", "ok">>
ViewNext ==
  \/ \E f \in FeatureIds : ToggleFeature(f)
  \/ ClearAllFilters
ViewSpec == ViewInit /\ [][ViewNext]_vars

\* The event loop runs the continuation of every promise that settles, and
\* every request is taken to settle.
Fairness ==
  /\ \A i \in LoadIds : WF_vars(ListResponse(i))
  /\ \A i \in LoadIds : WF_vars(ListJson(i))
  /\ \A i \in LoadIds : \A k \in 1..MaxCards : WF_vars(ProofResponse(i, k))
  /\ \A i \in LoadIds : \A k \in 1..MaxCards : WF_vars(ProofJson(i, k))
  /\ \A i \in LoadIds : WF_vars(Commit(i))
FairLoadSpec == LoadSpec /\ Fairness

\* =====================================================================
\* Claims
\* =====================================================================

\* C1: bountyCards is either empty or the result of the most recent
\* completed load issued for the present currentWorkspaceId; it never holds
\* cards fetched for another workspace id.
C1_CardsBelongToCurrentWorkspace ==
  \/ bountyCards = <<>>
  \/ /\ cardsFrom # 0
     /\ cardsWs = currentWorkspaceId

\* C2: a superseded load is never aborted.  Every step leaves every load
\* that is in flight in flight, unless it is that load's own last step; the
\* commit of a load is enabled as soon as its tasks have settled, whatever
\* newer loads have started or committed; and it writes its own list.
C2_SupersededLoadStillCommits ==
  /\ [](\A i \in LoadIds :
          (loads[i].pc = "proofs" /\ AllSettled(loads[i])) => ENABLED Commit(i))
  /\ [][\A i \in LoadIds :
          /\ InFlight(loads[i]) => loads'[i].pc \in {"list", "json", "proofs",
                                                     "committed", "failed"}
          /\ (loads[i].pc = "proofs" /\ loads'[i].pc = "committed")
               => bountyCards' = Enriched(loads[i])]_vars

\* C2 witness: load 2 started after load 1, for another workspace (through
\* switchWorkspace), and committed; load 1 committed after it, and
\* bountyCards holds the cards of load 1.
C2_Witness ==
  /\ loads[1].pc = "committed"
  /\ loads[2].pc = "committed"
  /\ cardsFrom = 1
  /\ cardsWs = "w1"
  /\ currentWorkspaceId = "w2"
  /\ Len(bountyCards) = MaxCards

\* C3: a switchWorkspace(newId) with newId other than the current id sets
\* currentWorkspaceId to newId and empties bountyCards in the step of the
\* call; the load it starts is for newId and is still awaiting its list
\* response in that state, so the state is observed before that load commits.
C3_SwitchClearsBeforeReload ==
  [][\A w \in WorkspaceIds :
       (lastOp' = <<"switchWorkspace", w>> /\ currentWorkspaceId # w) =>
         /\ currentWorkspaceId' = w
         /\ bountyCards' = <<>>
         /\ \A i \in LoadIds :
              loads'[i] # loads[i] =>
                loads[i].pc = "idle" /\ loads'[i] = LoadAt("list", w, <<>>, <<>>, FALSE)]_vars

\* C3 witness: the state right after a switch away from a workspace whose
\* cards had been committed.
C3_Witness ==
  /\ lastOp = <<"switchWorkspace", "w2">>
  /\ loads[1].pc = "committed"
  /\ loads[2] = LoadAt("list", "w2", <<>>, <<>>, FALSE)
  /\ currentWorkspaceId = "w2"
  /\ bountyCards = <<>>

\* C4: every load that passes the precondition check sets loading to true
\* in the step that starts it; the step in which it ends, by a commit or by
\* a failure of the list fetch (not ok, rejected, or a body that does not
\* parse), sets loading to false and is the last step that changes the
\* load; and with every request settling, every load in flight ends.
C4_LoadingSetThenCleared ==
  /\ [][\A i \in LoadIds :
          /\ (loads[i].pc = "idle" /\ loads'[i].pc # "idle")
               => (loading' = TRUE /\ loads'[i].pc = "list")
          /\ (InFlight(loads[i]) /\ ~InFlight(loads'[i]))
               => (loading' = FALSE /\ loads'[i].pc \in {"committed", "failed"})
          /\ loads[i].pc \in {"committed", "failed"} => loads'[i] = loads[i]]_vars
  /\ \A i \in LoadIds :
       InFlight(loads[i]) ~> (loads[i].pc \in {"committed", "failed"})

\* C4 witness: one load ended on a response that was not ok, after the
\* other one had started, the other one committed, and loading is false.
C4_Witness ==
  /\ lastOp = <<"response", "status">>
  /\ loads[1].pc = "failed"
  /\ loads[2].pc = "committed"
  /\ error = "Failed to load bounties: Not Found"
  /\ loading = FALSE

\* C5: a loadWorkspaceBounties that runs while the workspace id or the token
\* is absent (called by the UI or by switchWorkspace) issues no request,
\* does not throw, sets error to a non-empty message and leaves loading
\* and, when called by the UI, bountyCards as they were; a store none of
\* whose loads passed the check has no cards and is not loading.
C5_PreconditionFailure ==
  /\ [](loads[1].pc = "idle" => (bountyCards = <<>> /\ loading = FALSE))
  /\ [][/\ (lastOp' = <<"loadWorkspaceBounties", "">> /\ ~PreconditionOk(currentWorkspaceId))
            => /\ error' = "Missing workspace ID or authentication"
               /\ thrown' = FALSE
               /\ UNCHANGED <<bountyCards, loading, loads>>
        /\ \A w \in WorkspaceIds :
             (lastOp' = <<"switchWorkspace", w>> /\ currentWorkspaceId # w
                /\ ~PreconditionOk(w))
               => /\ error' = "Missing workspace ID or authentication"
                  /\ thrown' = FALSE
                  /\ UNCHANGED <<loading, loads>>]_vars

\* C5 witness: the call was refused (after a logout) while an earlier load
\* was in flight and cards were shown: loading is still true, the cards are
\* still there.
C5_Witness ==
  /\ lastOp = <<"loadWorkspaceBounties", "">>
  /\ error = MissingMsg
  /\ jwt = NoJwt
  /\ loading = TRUE
  /\ bountyCards # <<>>
  /\ InFlight(loads[2])

\* C6: when the list fetch of a load fails (response not ok, rejection, or
\* a body that does not parse), the load has issued no proofs request, the
\* step sets error to a non-empty message, which carries the status text
\* for a response that is not ok, and leaves bountyCards as it was; no
\* earlier step of the load changed bountyCards either.
C6_ListFailure ==
  [][\A i \in LoadIds :
       /\ (InFlight(loads[i]) /\ loads'[i].pc = "failed") =>
            /\ loads[i].pc \in {"list", "json"}
            /\ loads[i].proofs = <<>>
            /\ error' \notin {Null, ""}
            /\ lastOp' = <<"response", "status">>
                 => error' = "Failed to load bounties: Not Found"
            /\ bountyCards' = bountyCards
       /\ (loads[i].pc \in {"list", "json"} /\ loads'[i] # loads[i]) =>
            bountyCards' = bountyCards]_vars

\* C6 witness: a load failed on a response that was not ok while the cards
\* of an earlier load were shown; they still are.
C6_Witness ==
  /\ lastOp = <<"response", "status">>
  /\ loads[2].pc = "failed"
  /\ error = "Failed to load bounties: Not Found"
  /\ cardsFrom = 1
  /\ Len(bountyCards) = MaxCards

\* The k-th card of the list response that the load that wrote bountyCards
\* received.
ListedCard(k) == ServerCard(cardsWs, k)

\* C7: in a load whose list fetch succeeded, every card whose proofs request
\* failed (not ok, rejection, a body that is not an array) is committed with
\* pow = 0, every other card with the length of its proof array, all N cards
\* are committed, and no step of the load after its list response touches
\* error.
C7_ProofFailureGivesZero ==
  /\ [](cardsFrom # 0 =>
          /\ Len(bountyCards) = Len(cardsProofs)
          /\ \A k \in 1..Len(cardsProofs) :
               /\ bountyCards[k].id = ListedCard(k).id
               /\ bountyCards[k].pow =
                    IF cardsProofs[k] = Failed THEN 0 ELSE cardsProofs[k])
  /\ [][\A i \in LoadIds :
          (loads[i].pc = "proofs" /\ loads'[i] # loads[i]) => error' = error]_vars

\* C7 witness: two cards were committed, the proofs request of the first
\* failed and the second one answered one proof; error is null.
C7_Witness ==
  /\ cardsFrom # 0
  /\ cardsProofs = <<Failed, 1>>
  /\ bountyCards[1].pow = 0
  /\ bountyCards[2].pow = 1
  /\ error = Null
  /\ loading = FALSE

\* C8: after a load commits, bountyCards holds the N cards of the list
\* response in the order of the response (whatever order the proofs requests
\* settled in), each with the fields of the response and, when its proofs
\* request succeeded, pow equal to the length of the proof array; the tasks
\* of a load never reorder its list; a null body commits an empty list.
C8_CommittedList ==
  /\ [](cardsFrom # 0 =>
          /\ Len(bountyCards) = Len(cardsProofs)
          /\ \A k \in 1..Len(bountyCards) :
               /\ bountyCards[k].id = ListedCard(k).id
               /\ bountyCards[k].status = ListedCard(k).status
               /\ bountyCards[k].features = ListedCard(k).features
               /\ cardsProofs[k] # Failed => bountyCards[k].pow = cardsProofs[k])
  /\ [][\A i \in LoadIds :
          /\ (loads[i].pc = "proofs" /\ loads'[i].pc = "proofs")
               => loads'[i].data = loads[i].data
          /\ (loads[i].pc = "proofs" /\ loads[i].nullBody /\ loads'[i].pc = "committed")
               => bountyCards' = <<>>]_vars

\* C8 witness: the two cards of workspace w2 (listed by descending id) were
\* committed in the order of the response, with one and with no proof.
C8_Witness ==
  /\ cardsFrom # 0
  /\ cardsWs = "w2"
  /\ cardsProofs = <<1, 0>>
  /\ Len(bountyCards) = 2
  /\ bountyCards[1].id > bountyCards[2].id
  /\ bountyCards[1].pow = 1
  /\ bountyCards[2].pow = 0

\* C9: switchWorkspace(id) with id equal to currentWorkspaceId issues no
\* request and leaves bountyCards, currentWorkspaceId, loading, error and
\* selectedFeatures unchanged.
C9_SwitchSameIdIsNoOp ==
  [][\A w \in WorkspaceIds :
       (lastOp' = <<"switchWorkspace", w>> /\ currentWorkspaceId = w) =>
         UNCHANGED <<bountyCards, currentWorkspaceId, loading, error,
                     selectedFeatures, loads>>]_vars

\* C9 witness: the last call was switchWorkspace with the id the store is
\* on, its cards are still shown and its later load is still in flight.
C9_Witness ==
  /\ lastOp = <<"switchWorkspace", currentWorkspaceId>>
  /\ bountyCards # <<>>
  /\ cardsFrom = 1
  /\ loads[2] = LoadAt("list", currentWorkspaceId, <<>>, <<>>, FALSE)
  /\ loading = TRUE

\* C10: after any toggleFeature or clearAllFilters call that returns, the
\* stored record holds the store's selectedFeatures; in every state the
\* selection of the store is what the stored record denotes, or empty when
\* nothing is stored; and a store constructed in the session starts with
\* the selection the store before it held.
C10_PersistenceRoundTrip ==
  /\ [](alive =>
          /\ storage.kind = "null" => selectedFeatures = Arr(<<>>)
          /\ (storage.kind = "object" /\ storage.hasSF)
               => selectedFeatures = Arr(storage.sf)
          /\ (storage.kind = "object" /\ ~storage.hasSF)
               => selectedFeatures = Undefined)
  /\ [][/\ (lastOp'[1] \in {"toggleFeature", "clearAllFilters"} /\ ~thrown')
            => /\ storage'.kind = "object"
               /\ storage'.hasSF
               /\ storage'.sf = selectedFeatures'.items
        /\ (lastOp'[1] = "constructor" /\ alive /\ alive')
            => selectedFeatures' = selectedFeatures]_vars

\* C10 witness: a store was constructed after two toggles; it starts with
\* both features selected, in the order they were toggled.
C10_Witness ==
  /\ lastOp[1] = "constructor"
  /\ alive
  /\ selectedFeatures = Arr(<<"no-feature", "f1">>)
  /\ storage.sf = <<"no-feature", "f1">>
  /\ storage.ts = 2

\* The members of a JS array, as a set.
Members(items) == { items[k] : k \in 1..Len(items) }

\* C11: toggleFeature(id) is a symmetric-difference update.  A call that
\* returns adds id when it was absent and removes it when it was present,
\* keeps every other member (in order), and has written the new selection
\* to the storage; hence toggling any id twice from any selection gives
\* back the same set of selected features.
C11_ToggleIsSymmetricDifference ==
  /\ [][(lastOp'[1] = "toggleFeature" /\ ~thrown') =>
          LET id     == lastOp'[2]
              before == Members(selectedFeatures.items)
              after  == Members(selectedFeatures'.items)
          IN  /\ selectedFeatures.type = "array"
              /\ selectedFeatures'.type = "array"
              /\ after = (before \ {id}) \cup ({id} \ before)
              /\ Without(selectedFeatures'.items, id)
                   = Without(selectedFeatures.items, id)
              /\ storage'.kind = "object"
              /\ storage'.hasSF
              /\ storage'.sf = selectedFeatures'.items]_vars
  /\ [](selectedFeatures.type = "array" =>
          \A id \in FeatureIds :
            Members(Toggled(Toggled(selectedFeatures.items, id), id))
              = Members(selectedFeatures.items))

\* C11 witness: toggleFeature('f1') has just removed f1 from a selection
\* that also holds no-feature, which is kept and persisted.
C11_Witness ==
  /\ lastOp = <<"toggleFeature", "f1">>
  /\ ~thrown
  /\ selectedFeatures = Arr(<<"no-feature">>)
  /\ storage.hasSF
  /\ storage.sf = <<"no-feature">>

\* C12: after clearAllFilters(), from any state, selectedFeatures is the
\* empty array, the storage key holds a record (it is not absent) whose
\* selectedFeatures is the empty array, and filteredBountyCards is
\* bountyCards.
C12_ClearAllFilters ==
  [][lastOp'[1] = "clearAllFilters" =>
       /\ ~thrown'
       /\ selectedFeatures' = Arr(<<>>)
       /\ storage'.kind = "object"
       /\ storage'.hasSF
       /\ storage'.sf = <<>>
       /\ ~FilteredThrows'
       /\ FilteredBountyCards' = bountyCards'
       /\ bountyCards' = bountyCards]_vars

\* C12 witness: clearAllFilters() has run on a store that shows two cards,
\* one with a feature and one without.
C12_Witness ==
  /\ lastOp = <<"clearAllFilters", "">>
  /\ Len(bountyCards) = 2
  /\ bountyCards[1].features = "f2"
  /\ bountyCards[2].features = ""
  /\ FilteredBountyCards = bountyCards
  /\ storage.kind = "object"
  /\ storage.sf = <<>>

\* The feature filter lets the card through, in the words of the filter's
\* description.
PassesFilter(card) ==
  \/ card.features = "" /\ "no-feature" \in Members(selectedFeatures.items)
  \/ card.features # "" /\ card.features \in Members(selectedFeatures.items)

\* view is the cards of bountyCards at the positions kept, in their order.
\* (The cards of one list have different ids.)
IsOrderedSelection(view, kept) ==
  /\ Len(view) = Cardinality(kept)
  /\ \A j \in 1..Len(view) : \E k \in kept : bountyCards[k] = view[j]
  /\ \A k \in kept : \E j \in 1..Len(view) : view[j] = bountyCards[k]
  /\ \A i, j \in 1..Len(view) :
        i < j => \E k, m \in kept :
                   k < m /\ bountyCards[k] = view[i] /\ bountyCards[m] = view[j]

\* The positions of bountyCards whose card has the status given.
WithStatus(status) == {k \in 1..Len(bountyCards) : bountyCards[k].status = status}

\* C13: with an empty selection filteredBountyCards is all of bountyCards;
\* otherwise it holds exactly the cards that have no feature while
\* 'no-feature' is selected or whose feature is selected, in the order of
\* bountyCards; with the selection ['no-feature'] it is exactly the cards
\* without a feature.
C13_FilteredBountyCards ==
  ~FilteredThrows =>
    /\ selectedFeatures.items = <<>> => FilteredBountyCards = bountyCards
    /\ selectedFeatures.items # <<>> =>
          IsOrderedSelection(FilteredBountyCards,
            {k \in 1..Len(bountyCards) : PassesFilter(bountyCards[k])})
    /\ selectedFeatures.items = <<"no-feature">> =>
          IsOrderedSelection(FilteredBountyCards,
            {k \in 1..Len(bountyCards) : bountyCards[k].features = ""})

\* C13 witness: both ids are selected and the list holds a card of another
\* feature after a card without a feature: only the first card is shown.
C13_Witness ==
  /\ selectedFeatures = Arr(<<"f1", "no-feature">>)
  /\ Len(bountyCards) = 2
  /\ bountyCards[1].features = ""
  /\ bountyCards[2].features = "f2"
  /\ FilteredBountyCards = <<bountyCards[1]>>

\* C14: each status getter holds exactly the cards of bountyCards with its
\* status, in the order of bountyCards, in every state.
C14_StatusGetters ==
  /\ IsOrderedSelection(TodoItems, WithStatus("TODO"))
  /\ IsOrderedSelection(AssignedItems, WithStatus("IN_PROGRESS"))
  /\ IsOrderedSelection(ReviewItems, WithStatus("IN_REVIEW"))
  /\ IsOrderedSelection(CompletedItems, WithStatus("COMPLETED"))
  /\ IsOrderedSelection(PaidItems, WithStatus("PAID"))

\* C14 witness: a load has committed two cards in review with different
\* features; reviewItems holds both, in order, and todoItems is empty.
C14_Witness ==
  /\ lastOp = <<"response", "ok">>
  /\ Len(bountyCards) = 2
  /\ bountyCards[1].status = "IN_REVIEW"
  /\ bountyCards[2].status = "IN_REVIEW"
  /\ bountyCards[1].features = "f1"
  /\ bountyCards[2].features = ""
  /\ ReviewItems = bountyCards
  /\ TodoItems = <<>>

\* C15: the chat store is a map keyed by the exact chat id.  addChat(chat)
\* makes getChat(chat.id) return that chat and changes the answer for no
\* other id; updateChat(id, {title}) changes only the title of the chat
\* under id and creates nothing; getChat is undefined for every id under
\* which no chat was added (the empty string, another letter case, added
\* whitespace), and what it returns carries the id it was asked for.
C15_ChatsKeyedByExactId ==
  /\ [](\A id \in ChatIds :
          /\ id \notin AddedChatIds => GetChat(id) = UndefinedChat
          /\ GetChat(id) # UndefinedChat => GetChat(id).id = id)
  /\ [][lastOp'[1] = "addChat" =>
          \A id \in ChatIds :
            IF id = lastOp'[2]
            THEN GetChat(id)' = Chat(id, lastOp'[3], lastOp'[4])
            ELSE GetChat(id)' = GetChat(id)]_vars
  /\ [][lastOp'[1] = "updateChat" =>
          \A id \in ChatIds :
            IF id = lastOp'[2] /\ GetChat(id) # UndefinedChat
            THEN GetChat(id)' = Chat(id, GetChat(id).workspaceId, lastOp'[3])
            ELSE GetChat(id)' = GetChat(id)]_vars

\* C15 witness: chat123 was added and its title updated, CHAT123 was added
\* as a chat of its own, and the other spellings are unknown.
C15_Witness ==
  /\ lastOp = <<"updateChat", "chat123", "Updated Title">>
  /\ GetChat("chat123") = Chat("chat123", "workspace456", "Updated Title")
  /\ GetChat("CHAT123") = Chat("CHAT123", "workspace123", "Test Chat")
  /\ GetChat("  chat123  ") = UndefinedChat
  /\ GetChat("") = UndefinedChat
  /\ GetChat("chat1") = UndefinedChat

\* C16: a load changes bountyCards at most once, in one step that replaces
\* the whole list and that happens only after every per-card task of that
\* load has settled.  Every step of a load that is not its last leaves
\* bountyCards alone, a load that has ended takes no further step, and a
\* continuation step that changes bountyCards is the last step of a load
\* whose tasks have all settled and writes exactly that load's list, card
\* by card, with the pow of each task.
C16_SingleAtomicReplacement ==
  /\ [][\A i \in LoadIds :
          /\ (InFlight(loads[i]) /\ InFlight(loads'[i]) /\ loads'[i] # loads[i])
               => bountyCards' = bountyCards
          /\ (Started(loads[i]) /\ ~InFlight(loads[i])) => loads'[i] = loads[i]]_vars
  /\ [][(lastOp'[1] = "response" /\ bountyCards' # bountyCards) =>
          \E i \in LoadIds :
            /\ loads[i].pc = "proofs"
            /\ \A k \in 1..Len(loads[i].proofs) : loads[i].proofs[k].st = "done"
            /\ ~InFlight(loads'[i])
            /\ \A j \in LoadIds \ {i} : loads'[j] = loads[j]
            /\ Len(bountyCards') = Len(loads[i].data)
            /\ \A k \in 1..Len(loads[i].data) :
                  /\ bountyCards'[k].id = loads[i].data[k].id
                  /\ bountyCards'[k].status = loads[i].data[k].status
                  /\ bountyCards'[k].features = loads[i].data[k].features
                  /\ bountyCards'[k].pow = loads[i].proofs[k].pow]_vars

\* C16 witness: two loads of the same workspace have committed, the second
\* last; the list shown is the second load's single card, not a merge with
\* the cards of the first.
C16_Witness ==
  /\ lastOp = <<"response", "ok">>
  /\ currentWorkspaceId = "w1"
  /\ loads[1].pc = "committed"
  /\ loads[2].pc = "committed"
  /\ cardsFrom = 2
  /\ cardsWs = "w1"
  /\ Len(bountyCards) = 1
  /\ bountyCards[1].pow = 1

\* C17: no operation of the store raises to its caller, whatever the
\* network answers and whatever the storage key holds: construction,
\* loadWorkspaceBounties, switchWorkspace, toggleFeature and
\* clearAllFilters complete normally.
C17_NoOperationThrows == ~thrown

\* C18: loading is true whenever a load that passed the precondition check
\* is still in flight, also when several loads overlap.
C18_LoadingWhileInFlight ==
  (\E i \in LoadIds : InFlight(loads[i])) => loading = TRUE

\* C19: once every started load has completed, error describes the load
\* that was started last: null when that load committed, a message when it
\* failed.  (With a token and a workspace id present, the last call that
\* reached the precondition check is the last load started.)
C19_ErrorDescribesLastLoad ==
  (/\ jwt = Jwt
   /\ currentWorkspaceId # NoWorkspace
   /\ NumStarted >= 1
   /\ \A i \in LoadIds : ~InFlight(loads[i]))
    => /\ loads[NumStarted].pc = "committed" => error = Null
       /\ loads[NumStarted].pc = "failed" => error # Null

\* C20: the five status views are pairwise disjoint; a card whose status
\* is one of the five values is in exactly one of them and a card of any
\* other status is in none, so their lengths add up to at most the length
\* of bountyCards.
C20_StatusViewsPartition ==
  LET Holds(a, card) == \E j \in 1..Len(StatusViews[a]) : StatusViews[a][j] = card
      ViewsOf(card) == {a \in 1..5 : Holds(a, card)}
      total == Len(StatusViews[1]) + Len(StatusViews[2]) + Len(StatusViews[3])
                 + Len(StatusViews[4]) + Len(StatusViews[5])
  IN  /\ \A a, b \in 1..5 :
            a # b => ~\E j \in 1..Len(StatusViews[a]) : Holds(b, StatusViews[a][j])
      /\ \A k \in 1..Len(bountyCards) :
            Cardinality(ViewsOf(bountyCards[k])) =
              IF bountyCards[k].status
                   \in {"TODO", "IN_PROGRESS", "IN_REVIEW", "COMPLETED", "PAID"}
              THEN 1 ELSE 0
      /\ total <= Len(bountyCards)
      /\ total = Cardinality({k \in 1..Len(bountyCards) :
                                bountyCards[k].status
                                  \in {"TODO", "IN_PROGRESS", "IN_REVIEW",
                                       "COMPLETED", "PAID"}})

\* C20 witness: a draft card and a paid card; only the paid card is in a
\* view, so the views hold fewer cards than bountyCards.
C20_Witness ==
  /\ Len(bountyCards) = 2
  /\ bountyCards[1].status = "DRAFT"
  /\ bountyCards[2].status = "PAID"
  /\ PaidItems = <<bountyCards[2]>>
  /\ CompletedItems = <<>>
  /\ lastOp[1] = "toggleFeature"

====
